---- MODULE Spec2Model ----
(***************************************************************************)
(* bando-io: the frame-synchronised physics-to-render pipeline.            *)
(*                                                                         *)
(*   PhysicsEngine  src/bando-game/src/game/core/PhysicsEngine.ts          *)
(*   GameScene      src/unnamed/part_000                                   *)
(*   GameEngine     src/unnamed/part_002                                   *)
(*   GameView       src/bando-game/src/components/GameView.tsx             *)
(*                                                                         *)
(* Lengths are integers in hundredths of a unit (0.25 is 25, 5 is 500),    *)
(* so every size, half-extent and position of the source is exact.  One    *)
(* World.step() is one tick; velocities are per tick.  Vectors are         *)
(* <<x, y, z>>; an orientation is one integer angle (rotation about z),    *)
(* 0 being the identity quaternion.                                        *)
(*                                                                         *)
(* Objects live in heaps: worlds (every RAPIER.World ever constructed),    *)
(* meshes (every THREE.Mesh ever constructed).  A reference is an index    *)
(* into its heap, 0 is null.  A RigidBody reference is <<world, body>>.    *)
(***************************************************************************)
EXTENDS Integers, Sequences, FiniteSets, TLC

\* ------------------------------------------------------------------ bounds

\* calls a client makes that add to the state: init(), creations, steps that
\* advance a world, forces and impulses that reach a body
MaxCalls == 5
\* frame callbacks the browser runs
MaxFrames == 3
\* keyboard events and direct GameEngine calls
MaxInputs == 2

\* ------------------------------------------------------------- vectors

Zero3 == <<0, 0, 0>>

VAdd(a, b) == <<a[1] + b[1], a[2] + b[2], a[3] + b[3]>>

VSub(a, b) == <<a[1] - b[1], a[2] - b[2], a[3] - b[3]>>

\* integer quotient rounding toward zero, as a float division truncated would
QuotZ(n, d) == IF n >= 0 THEN n \div d ELSE -((-n) \div d)

VDiv(a, d) == <<QuotZ(a[1], d), QuotZ(a[2], d), QuotZ(a[3], d)>>

Abs(n) == IF n < 0 THEN -n ELSE n

\* size {width, height, depth} to cuboid half-extents (size.width / 2, ...)
HalfExtents(size) == <<size[1] \div 2, size[2] \div 2, size[3] \div 2>>

\* z component of r x f, in whole units
TorqueZ(r, f) == QuotZ(r[1] * f[2] - r[2] * f[1], 10000)

\* ------------------------------------------------------- the Rapier world

\* y of const gravity = { x: 0.0, y: -9.81, z: 0.0 }
GravityY == -981

Gravity == <<0, GravityY, 0>>

\* new World(gravity)
NewWorld(gravity) ==
  [gravity |-> gravity, steps |-> 0, bodies |-> <<>>, colliders |-> <<>>]

\* mass of a cuboid collider of density 1: its volume in whole units, at least 1
MassOf(half) ==
  LET v == (8 * half[1] * half[2] * half[3]) \div 1000000
  IN  IF v < 1 THEN 1 ELSE v

\* world.createRigidBody(desc): desc is dynamic() or fixed(), setTranslation(p)
NewBody(isDynamic, position) ==
  [dynamic |-> isDynamic, translation |-> position, rotation |-> 0,
   linvel |-> Zero3, angvel |-> 0, force |-> Zero3, torque |-> 0,
   half |-> Zero3, mass |-> 1]

\* world.createCollider(ColliderDesc.cuboid(hx, hy, hz), parent?): parent 0 is
\* the static world; a collider's translation is relative to its parent and is
\* never set by the source, so an unparented collider sits at the origin.
NewCollider(half, parent) ==
  [half |-> half, parent |-> parent, translation |-> Zero3]

\* the top face of a static collider under a body, or the body falls freely
GroundUnder(w, b, p) ==
  { c \in 1..Len(w.colliders) :
      /\ w.colliders[c].parent = 0
      /\ Abs(p[1] - w.colliders[c].translation[1]) <= w.colliders[c].half[1] + b.half[1]
      /\ Abs(p[3] - w.colliders[c].translation[3]) <= w.colliders[c].half[3] + b.half[3]
      /\ b.translation[2] - b.half[2]
           >= w.colliders[c].translation[2] + w.colliders[c].half[2]
      /\ p[2] - b.half[2] < w.colliders[c].translation[2] + w.colliders[c].half[2] }

\* one tick of one body: semi-implicit Euler, then rest on a static collider
StepBody(w, b) ==
  IF ~b.dynamic THEN b
  ELSE LET v1 == VAdd(b.linvel, VAdd(w.gravity, VDiv(b.force, b.mass)))
           p1 == VAdd(b.translation, v1)
           a1 == b.angvel + b.torque
           g  == GroundUnder(w, b, p1)
       IN  IF g = {}
           THEN [b EXCEPT !.linvel = v1, !.translation = p1,
                          !.angvel = a1, !.rotation = b.rotation + a1]
           ELSE LET c   == CHOOSE c \in g : \A d \in g :
                             w.colliders[c].translation[2] + w.colliders[c].half[2]
                               >= w.colliders[d].translation[2] + w.colliders[d].half[2]
                    top == w.colliders[c].translation[2] + w.colliders[c].half[2]
                IN  [b EXCEPT !.linvel = <<v1[1], 0, v1[3]>>,
                              !.translation = <<p1[1], top + b.half[2], p1[3]>>,
                              !.angvel = a1, !.rotation = b.rotation + a1]

\* world.step(): every body advances by one tick (fixed internal timestep)
WorldStep(w) ==
  [w EXCEPT !.steps = w.steps + 1,
            !.bodies = [i \in 1..Len(w.bodies) |-> StepBody(w, w.bodies[i])]]

\* rigidBody.addForce(force, true): a persistent user force on a dynamic body
BodyAddForce(b, force) ==
  IF b.dynamic THEN [b EXCEPT !.force = VAdd(b.force, force)] ELSE b

\* rigidBody.addForceAtPoint(force, point, true)
BodyAddForceAtPoint(b, force, point) ==
  IF b.dynamic
  THEN [b EXCEPT !.force = VAdd(b.force, force),
                 !.torque = b.torque + TorqueZ(VSub(point, b.translation), force)]
  ELSE b

\* rigidBody.applyImpulse(impulse, true): an instantaneous change of velocity
BodyApplyImpulse(b, impulse) ==
  IF b.dynamic THEN [b EXCEPT !.linvel = VAdd(b.linvel, VDiv(impulse, b.mass))] ELSE b

\* rigidBody.applyImpulseAtPoint(impulse, point, true)
BodyApplyImpulseAtPoint(b, impulse, point) ==
  IF b.dynamic
  THEN [b EXCEPT !.linvel = VAdd(b.linvel, VDiv(impulse, b.mass)),
                 !.angvel = b.angvel + TorqueZ(VSub(point, b.translation), impulse)]
  ELSE b

\* world.createRigidBody(rigidBodyDesc)
WorldCreateRigidBody(w, isDynamic, position) ==
  [w EXCEPT !.bodies = Append(w.bodies, NewBody(isDynamic, position))]

\* world.createCollider(colliderDesc, parent?): an attached collider gives its
\* body its extent and mass
WorldCreateCollider(w, half, parent) ==
  LET w1 == [w EXCEPT !.colliders = Append(w.colliders, NewCollider(half, parent))]
  IN  IF parent = 0 THEN w1
      ELSE [w1 EXCEPT !.bodies[parent].half = half,
                      !.bodies[parent].mass = MassOf(half)]

\* ------------------------------------------------------ the program state

\* the null RigidBody / Collider reference
NullRef == <<0, 0>>

\* the undefined `physics` of a registry entry
NoPhysics == [rigidBody |-> NullRef, collider |-> NullRef, mesh |-> 0]

\* results of a call: null, void, or a value
RetNull == [kind |-> "null", value |-> NoPhysics]

RetVoid == [kind |-> "void", value |-> NoPhysics]

RetUndefined == [kind |-> "undefined", value |-> NoPhysics]

\* new THREE.Mesh(geometry, material): at the origin, identity orientation
NewMesh ==
  [position |-> Zero3, quaternion |-> 0, disposed |-> FALSE]

\* ---------------------------------------------------------- PhysicsEngine
\* The operators take the program state s (a record of every variable) and
\* return the state after the call; s.ret is the call's return value and
\* s.raised says an exception escaped it.

\* init() after `await import('@dimforge/rapier3d')` has resolved: the rest of
\* the function runs without suspension
PhysicsEngine_init(s) ==
  [s EXCEPT !.rapierModule = TRUE,
            !.worlds = Append(s.worlds, NewWorld(Gravity)),
            !.world = Len(s.worlds) + 1,
            !.initialized = TRUE,
            !.ret = RetVoid]

PhysicsEngine_isInitialized(s) == s.initialized

PhysicsEngine_createGround(s, size) ==
  IF s.world = 0 \/ ~s.rapierModule THEN [s EXCEPT !.ret = RetNull]
  ELSE LET w == WorldCreateCollider(s.worlds[s.world], HalfExtents(size), 0)
       IN  [s EXCEPT !.worlds[s.world] = w,
                     !.ret = [kind |-> "Collider",
                              value |-> [NoPhysics EXCEPT
                                           !.collider = <<s.world, Len(w.colliders)>>]]]

\* createBox without its null guard: this.world.createRigidBody on null throws
PhysicsEngine_createBox_NoGuard(s, size, position, mesh, isDynamic) ==
  IF s.world = 0 \/ ~s.rapierModule THEN [s EXCEPT !.raised = TRUE]
  ELSE LET w1 == WorldCreateRigidBody(s.worlds[s.world], isDynamic, position)
           rb == Len(w1.bodies)
           w2 == WorldCreateCollider(w1, HalfExtents(size), rb)
           physicsObject == [rigidBody |-> <<s.world, rb>>,
                             collider  |-> <<s.world, Len(w2.colliders)>>,
                             mesh      |-> mesh]
       IN  [s EXCEPT !.worlds[s.world] = w2,
                     !.physicsObjects = Append(s.physicsObjects, physicsObject),
                     !.ret = [kind |-> "PhysicsObject", value |-> physicsObject]]

PhysicsEngine_createBox(s, size, position, mesh, isDynamic) ==
  IF s.world = 0 \/ ~s.rapierModule THEN [s EXCEPT !.ret = RetNull]
  ELSE LET w1 == WorldCreateRigidBody(s.worlds[s.world], isDynamic, position)
           rb == Len(w1.bodies)
           w2 == WorldCreateCollider(w1, HalfExtents(size), rb)
           physicsObject == [rigidBody |-> <<s.world, rb>>,
                             collider  |-> <<s.world, Len(w2.colliders)>>,
                             mesh      |-> mesh]
       IN  [s EXCEPT !.worlds[s.world] = w2,
                     !.physicsObjects = Append(s.physicsObjects, physicsObject),
                     !.ret = [kind |-> "PhysicsObject", value |-> physicsObject]]

\* update that copies the rotation only: the mesh stays where it was made
PhysicsObject_update_RotationOnly(s, obj) ==
  LET rigidBody == s.worlds[obj.rigidBody[1]].bodies[obj.rigidBody[2]]
  IN  [s EXCEPT !.meshes[obj.mesh].quaternion = rigidBody.rotation,
                !.stepLog = Append(s.stepLog, <<"update", obj.rigidBody[1], obj.rigidBody[2]>>)]

\* physicsObject.update(): copy the body's translation and rotation into the mesh
PhysicsObject_update(s, obj) ==
  LET rigidBody == s.worlds[obj.rigidBody[1]].bodies[obj.rigidBody[2]]
  IN  [s EXCEPT !.meshes[obj.mesh].position = rigidBody.translation,
                !.meshes[obj.mesh].quaternion = rigidBody.rotation,
                !.stepLog = Append(s.stepLog, <<"update", obj.rigidBody[1], obj.rigidBody[2]>>)]

\* for (const obj of this.physicsObjects) obj.update(), from the i-th on
RECURSIVE UpdateFrom(_, _)
UpdateFrom(s, i) ==
  IF i > Len(s.physicsObjects) THEN s
  ELSE UpdateFrom(PhysicsObject_update(s, s.physicsObjects[i]), i + 1)

\* step with the sinks written before the world is advanced
PhysicsEngine_step_UpdateFirst(s) ==
  IF s.world = 0 THEN [s EXCEPT !.ret = RetVoid]
  ELSE LET s1 == UpdateFrom(s, 1)
       IN  [s1 EXCEPT !.worlds[s.world] = WorldStep(s.worlds[s.world]),
                      !.stepLog = Append(s1.stepLog, <<"world.step", s.world, 0>>),
                      !.ret = RetVoid]

\* step without its null guard: this.world.step() on null throws
PhysicsEngine_step_NoGuard(s) ==
  IF s.world = 0 THEN [s EXCEPT !.raised = TRUE]
  ELSE LET s1 == [s EXCEPT !.worlds[s.world] = WorldStep(s.worlds[s.world]),
                           !.stepLog = Append(s.stepLog, <<"world.step", s.world, 0>>)]
       IN  [UpdateFrom(s1, 1) EXCEPT !.ret = RetVoid]

PhysicsEngine_step(s) ==
  IF s.world = 0 THEN [s EXCEPT !.ret = RetVoid]
  ELSE LET s1 == [s EXCEPT !.worlds[s.world] = WorldStep(s.worlds[s.world]),
                           !.stepLog = Append(s.stepLog, <<"world.step", s.world, 0>>)]
       IN  [UpdateFrom(s1, 1) EXCEPT !.ret = RetVoid]

\* cleanup that forgets the bodies and keeps the world
PhysicsEngine_cleanup_KeepWorld(s) ==
  [s EXCEPT !.physicsObjects = <<>>, !.ret = RetVoid]

PhysicsEngine_cleanup(s) ==
  [s EXCEPT !.physicsObjects = <<>>, !.world = 0, !.ret = RetVoid]

\* -------------------------------------------------------------- GameScene

\* this.objects is a Map: a function on the identifiers inserted so far
\* a set that keeps the entry already stored under the key
MapSet_KeepFirst(m, id, v) ==
  [k \in DOMAIN m \cup {id} |-> IF k \in DOMAIN m THEN m[k] ELSE v]

MapSet(m, id, v) == [k \in DOMAIN m \cup {id} |-> IF k = id THEN v ELSE m[k]]

EmptyMap == [k \in {} |-> [mesh |-> 0, physics |-> NoPhysics]]

\* createPhysicsBox that stores no entry when the engine returns null
GameScene_createPhysicsBox_SkipEntry(s, id, size, position, isDynamic) ==
  LET mesh == Len(s.meshes) + 1
      s1 == [s EXCEPT !.meshes = Append(s.meshes, NewMesh),
                      !.sceneChildren = s.sceneChildren \cup {mesh}]
      s2 == PhysicsEngine_createBox(s1, size, position, mesh, isDynamic)
  IN  IF s2.ret.kind = "null" THEN [s2 EXCEPT !.ret = RetVoid]
      ELSE [s2 EXCEPT !.objects = MapSet(s2.objects, id,
                                         [mesh |-> mesh, physics |-> s2.ret.value]),
                      !.ret = RetVoid]

GameScene_createPhysicsBox(s, id, size, position, isDynamic) ==
  LET mesh == Len(s.meshes) + 1
      s1 == [s EXCEPT !.meshes = Append(s.meshes, NewMesh),
                      !.sceneChildren = s.sceneChildren \cup {mesh}]
      s2 == PhysicsEngine_createBox(s1, size, position, mesh, isDynamic)
      physicsObject == s2.ret
  IN  [s2 EXCEPT !.objects = MapSet(s2.objects, id,
                               [mesh |-> mesh,
                                physics |-> IF physicsObject.kind = "null"
                                            THEN NoPhysics ELSE physicsObject.value]),
                 !.ret = RetVoid]

\* createGround without groundMesh.position.set(...): the mesh stays at the
\* origin
GameScene_createGround_MeshAtOrigin(s, id, size, position) ==
  LET mesh == Len(s.meshes) + 1
      s1 == [s EXCEPT !.meshes = Append(s.meshes, NewMesh),
                      !.sceneChildren = s.sceneChildren \cup {mesh}]
      s2 == PhysicsEngine_createGround(s1, size)
  IN  [s2 EXCEPT !.objects = MapSet(s2.objects, id, [mesh |-> mesh, physics |-> NoPhysics]),
                 !.ret = RetVoid]

GameScene_createGround(s, id, size, position) ==
  LET mesh == Len(s.meshes) + 1
      s1 == [s EXCEPT !.meshes = Append(s.meshes, [NewMesh EXCEPT !.position = position]),
                      !.sceneChildren = s.sceneChildren \cup {mesh}]
      s2 == PhysicsEngine_createGround(s1, size)
  IN  [s2 EXCEPT !.objects = MapSet(s2.objects, id, [mesh |-> mesh, physics |-> NoPhysics]),
                 !.ret = RetVoid]

GameScene_getObject(s, id) ==
  IF id \in DOMAIN s.objects
  THEN [s EXCEPT !.ret = [kind |-> "entry",
                          value |-> [s.objects[id].physics EXCEPT
                                       !.mesh = s.objects[id].mesh]]]
  ELSE [s EXCEPT !.ret = RetUndefined]

\* the absent `point` argument
NoPoint == <<0, 0, 0, 0>>

\* the body a RigidBody reference names
Deref(s, ref) == s.worlds[ref[1]].bodies[ref[2]]

\* obj.physics.rigidBody.<method>(...): the body a reference names becomes b
SetBody(s, ref, b) ==
  [s EXCEPT !.worlds[ref[1]].bodies[ref[2]] = b, !.applied = s.applied + 1]

GameScene_applyForce(s, id, force, point) ==
  IF id \notin DOMAIN s.objects \/ s.objects[id].physics = NoPhysics
       \/ s.objects[id].physics.rigidBody = NullRef
  THEN [s EXCEPT !.ret = RetVoid]
  ELSE LET rb == s.objects[id].physics.rigidBody
           b  == IF point # NoPoint
                 THEN BodyAddForceAtPoint(Deref(s, rb), force,
                                          <<point[1], point[2], point[3]>>)
                 ELSE BodyAddForce(Deref(s, rb), force)
       IN  [SetBody(s, rb, b) EXCEPT !.ret = RetVoid]

\* applyImpulse that checks only that the identifier is known:
\* obj.physics.rigidBody on an entry without physics throws
GameScene_applyImpulse_NoPhysicsCheck(s, id, impulse, point) ==
  IF id \notin DOMAIN s.objects THEN [s EXCEPT !.ret = RetVoid]
  ELSE IF s.objects[id].physics = NoPhysics THEN [s EXCEPT !.raised = TRUE]
  ELSE LET rb == s.objects[id].physics.rigidBody
           b  == IF point # NoPoint
                 THEN BodyApplyImpulseAtPoint(Deref(s, rb), impulse,
                                              <<point[1], point[2], point[3]>>)
                 ELSE BodyApplyImpulse(Deref(s, rb), impulse)
       IN  [SetBody(s, rb, b) EXCEPT !.ret = RetVoid]

\* applyImpulse that reaches the body the engine created last instead of the
\* body of the entry
GameScene_applyImpulse_LastBody(s, id, impulse, point) ==
  IF id \notin DOMAIN s.objects \/ s.objects[id].physics = NoPhysics
       \/ s.objects[id].physics.rigidBody = NullRef
  THEN [s EXCEPT !.ret = RetVoid]
  ELSE LET rb == IF s.physicsObjects = <<>>
                 THEN s.objects[id].physics.rigidBody
                 ELSE s.physicsObjects[Len(s.physicsObjects)].rigidBody
           b  == IF point # NoPoint
                 THEN BodyApplyImpulseAtPoint(Deref(s, rb), impulse,
                                              <<point[1], point[2], point[3]>>)
                 ELSE BodyApplyImpulse(Deref(s, rb), impulse)
       IN  [SetBody(s, rb, b) EXCEPT !.ret = RetVoid]

GameScene_applyImpulse(s, id, impulse, point) ==
  IF id \notin DOMAIN s.objects \/ s.objects[id].physics = NoPhysics
       \/ s.objects[id].physics.rigidBody = NullRef
  THEN [s EXCEPT !.ret = RetVoid]
  ELSE LET rb == s.objects[id].physics.rigidBody
           b  == IF point # NoPoint
                 THEN BodyApplyImpulseAtPoint(Deref(s, rb), impulse,
                                              <<point[1], point[2], point[3]>>)
                 ELSE BodyApplyImpulse(Deref(s, rb), impulse)
       IN  [SetBody(s, rb, b) EXCEPT !.ret = RetVoid]

\* for (const [, obj] of this.objects.entries()): scene.remove(obj.mesh) and
\* dispose of its geometry and material; then this.objects.clear()
\* cleanup without this.objects.clear()
GameScene_cleanup_NoClear(s) ==
  LET tracked == { s.objects[k].mesh : k \in DOMAIN s.objects } \ {0}
  IN  [s EXCEPT !.sceneChildren = s.sceneChildren \ tracked,
                !.meshes = [m \in 1..Len(s.meshes) |->
                              IF m \in tracked
                              THEN [s.meshes[m] EXCEPT !.disposed = TRUE]
                              ELSE s.meshes[m]],
                !.ret = RetVoid]

GameScene_cleanup(s) ==
  LET tracked == { s.objects[k].mesh : k \in DOMAIN s.objects } \ {0}
  IN  [s EXCEPT !.sceneChildren = s.sceneChildren \ tracked,
                !.meshes = [m \in 1..Len(s.meshes) |->
                              IF m \in tracked
                              THEN [s.meshes[m] EXCEPT !.disposed = TRUE]
                              ELSE s.meshes[m]],
                !.objects = EmptyMap,
                !.ret = RetVoid]

\* ------------------------------------------------------------- variables

VARIABLES
  \* PhysicsEngine
  worlds,           \* every RAPIER.World constructed so far
  world,            \* this.world: an index into worlds, 0 is null
  physicsObjects,   \* this.physicsObjects
  rapierModule,     \* this.rapierModule is loaded
  initialized,      \* this.initialized
  initPending,      \* init() calls suspended at the dynamic import
  initCalls,        \* init() calls made
  \* THREE
  meshes,           \* every THREE.Mesh constructed by the scene code
  sceneChildren,    \* the meshes in the THREE.Scene (the render graph)
  \* GameScene
  objects,          \* this.objects
  \* the last call
  lastOp,           \* <<its name, its identifier or key argument>>
  ret,              \* its return value
  raised,           \* an exception escaped it
  stepLog,          \* what it did to the world and the sinks, in order
  applied,          \* force / impulse calls that reached a body
  \* GameEngine
  engine,           \* the fields of the GameEngine a GameView has constructed
  \* GameView
  view              \* debugMode, engineRef and the keydown listener

vars ==
  <<worlds, world, physicsObjects, rapierModule, initialized, initPending, initCalls,
    meshes, sceneChildren, objects, lastOp, ret, raised, stepLog, applied,
    engine, view>>

\* the program state as one record, for the operators above
St ==
  [worlds |-> worlds, world |-> world, physicsObjects |-> physicsObjects,
   rapierModule |-> rapierModule, initialized |-> initialized,
   initPending |-> initPending, initCalls |-> initCalls,
   meshes |-> meshes, sceneChildren |-> sceneChildren, objects |-> objects,
   lastOp |-> lastOp, ret |-> ret, raised |-> raised, stepLog |-> stepLog,
   applied |-> applied, engine |-> engine, view |-> view]

\* the state s becomes the next state
Commit(s) ==
  /\ worlds' = s.worlds
  /\ world' = s.world
  /\ physicsObjects' = s.physicsObjects
  /\ rapierModule' = s.rapierModule
  /\ initialized' = s.initialized
  /\ initPending' = s.initPending
  /\ initCalls' = s.initCalls
  /\ meshes' = s.meshes
  /\ sceneChildren' = s.sceneChildren
  /\ objects' = s.objects
  /\ lastOp' = s.lastOp
  /\ ret' = s.ret
  /\ raised' = s.raised
  /\ stepLog' = s.stepLog
  /\ applied' = s.applied
  /\ engine' = s.engine
  /\ view' = s.view

\* the state in which a call named op starts
BeginArg(op, arg) ==
  [St EXCEPT !.lastOp = <<op, arg>>, !.ret = RetVoid, !.raised = FALSE, !.stepLog = <<>>]

Begin(op) == BeginArg(op, "")

\* ticks made so far, over every world
TotalSteps(ws) ==
  LET RECURSIVE Sum(_)
      Sum(i) == IF i = 0 THEN 0 ELSE ws[i].steps + Sum(i - 1)
  IN  Sum(Len(ws))

\* the colliders attached to no body, over every world
Grounds(ws) ==
  LET RECURSIVE Sum(_)
      Sum(i) == IF i = 0 THEN 0
                ELSE Cardinality({c \in 1..Len(ws[i].colliders) :
                                    ws[i].colliders[c].parent = 0}) + Sum(i - 1)
  IN  Sum(Len(ws))

\* the client's calls so far that added to the state
Used == initCalls + Len(meshes) + Grounds(worlds) + TotalSteps(worlds) + applied

\* the client may make one more
MayCall == Used < MaxCalls

\* ----------------------------------------------------------------- inputs

Ids == {"a", "b"}

\* an identifier no creation ever uses
UnknownId == "ghost"

BoxSize == <<100, 100, 100>>

GroundSize == <<2000, 50, 2000>>

Positions == {<<0, 500, 0>>}

GroundPosition == <<0, -25, 0>>

\* a force or impulse with a horizontal part of 2.0 and a vertical part of 5
Vectors == {<<200, 500, 0>>}

Points == {NoPoint, <<100, 500, 0, 1>>}

\* no GameEngine, no GameView: the scene classes driven directly
NoEngine ==
  [constructed |-> FALSE, physicsInitialized |-> FALSE, gameScene |-> FALSE,
   animationId |-> 0, pendingFrames |-> {}, nextFrameId |-> 1, debug |-> FALSE,
   cubeInScene |-> FALSE, cubeRotation |-> 0, cubeDisposed |-> FALSE,
   initPhysics |-> "none", frames |-> 0, renders |-> 0,
   rendered |-> [m \in {} |-> <<Zero3, 0>>], cleanedUp |-> FALSE]

NoView == [mounted |-> FALSE, debugMode |-> FALSE, engineRef |-> FALSE, inputs |-> 0]

\* ------------------------------------------ Spec: the scene classes' clients
\* A client holds one PhysicsEngine and one GameScene built over it
\* (new PhysicsEngine(); new GameScene(scene, physicsEngine)) and calls their
\* public methods in any order.

Init ==
  /\ worlds = <<>>
  /\ world = 0
  /\ physicsObjects = <<>>
  /\ rapierModule = FALSE
  /\ initialized = FALSE
  /\ initPending = 0
  /\ initCalls = 0
  /\ meshes = <<>>
  /\ sceneChildren = {}
  /\ objects = EmptyMap
  /\ lastOp = <<"new", "">>
  /\ ret = RetVoid
  /\ raised = FALSE
  /\ stepLog = <<>>
  /\ applied = 0
  /\ engine = NoEngine
  /\ view = NoView

\* physicsEngine.init() is called and suspends at the import
InitCall ==
  /\ MayCall
  /\ Commit([Begin("init") EXCEPT !.initPending = initPending + 1,
                                  !.initCalls = initCalls + 1])

\* the import resolves and init() runs to its end
InitResolve ==
  /\ initPending > 0
  /\ Commit(PhysicsEngine_init([Begin("init.resolved") EXCEPT
                                  !.initPending = initPending - 1]))

\* the import fails (the backend cannot be loaded): init() rejects
InitReject ==
  /\ initPending > 0
  /\ Commit([Begin("init.rejected") EXCEPT !.initPending = initPending - 1])

CreateGround ==
  /\ world # 0 => MayCall
  /\ Commit(PhysicsEngine_createGround(Begin("createGround"), GroundSize))

\* physicsEngine.createBox(size, position, mesh, isDynamic) with a mesh the
\* client has constructed
CreateBox ==
  /\ MayCall
  /\ \E position \in Positions, isDynamic \in BOOLEAN :
       Commit(PhysicsEngine_createBox(
                [Begin("createBox") EXCEPT !.meshes = Append(meshes, NewMesh)],
                BoxSize, position, Len(meshes) + 1, isDynamic))

Step ==
  /\ world # 0 => MayCall
  /\ Commit(PhysicsEngine_step(Begin("step")))

Cleanup ==
  Commit(PhysicsEngine_cleanup(Begin("cleanup")))

SceneCreatePhysicsBox ==
  /\ MayCall
  /\ \E id \in Ids, position \in Positions, isDynamic \in BOOLEAN :
       Commit(GameScene_createPhysicsBox(BeginArg("scene.createPhysicsBox", id),
                                         id, BoxSize, position, isDynamic))

SceneCreateGround ==
  /\ Used + (IF world # 0 THEN 1 ELSE 0) < MaxCalls
  /\ \E id \in Ids :
       Commit(GameScene_createGround(BeginArg("scene.createGround", id),
                                     id, GroundSize, GroundPosition))

SceneGetObject ==
  \E id \in Ids \cup {UnknownId} :
    Commit(GameScene_getObject(BeginArg("scene.getObject", id), id))

SceneApplyForce ==
  /\ MayCall
  /\ \E id \in Ids \cup {UnknownId}, force \in Vectors, point \in Points :
       Commit(GameScene_applyForce(BeginArg("scene.applyForce", id), id, force, point))

SceneApplyImpulse ==
  /\ MayCall
  /\ \E id \in Ids \cup {UnknownId}, impulse \in Vectors, point \in Points :
       Commit(GameScene_applyImpulse(BeginArg("scene.applyImpulse", id), id, impulse, point))

SceneCleanup ==
  Commit(GameScene_cleanup(Begin("scene.cleanup")))

\* a client of PhysicsEngine alone
Next ==
  \/ InitCall
  \/ InitResolve
  \/ InitReject
  \/ CreateGround
  \/ CreateBox
  \/ Step
  \/ Cleanup

Spec == Init /\ [][Next]_vars

\* ------------------------------- SpecScene: a client of GameScene
\* The client initialises the engine once, as GameEngine.initPhysics does,
\* and may call the GameScene before, while and after that.

SceneInitCall ==
  /\ initCalls = 0
  /\ MayCall
  /\ Commit([Begin("init") EXCEPT !.initPending = initPending + 1,
                                  !.initCalls = initCalls + 1])

NextScene ==
  \/ SceneInitCall
  \/ InitResolve
  \/ InitReject
  \/ Step
  \/ SceneCreatePhysicsBox
  \/ SceneCreateGround
  \/ SceneGetObject
  \/ SceneApplyForce
  \/ SceneApplyImpulse
  \/ SceneCleanup

SpecScene == Init /\ [][NextScene]_vars

\* ------------------------------------------------------------- GameEngine

\* this.renderer.render(this.scene, this.camera): the render pass reads the
\* position and quaternion of every mesh in the scene
Render(s) ==
  [s EXCEPT !.engine.renders = s.engine.renders + 1,
            !.engine.rendered = [m \in s.sceneChildren |->
                                   <<s.meshes[m].position, s.meshes[m].quaternion>>],
            !.stepLog = Append(s.stepLog, <<"render", 0, 0>>)]

\* requestAnimationFrame(this.animate): a new handle, its callback pending
RequestAnimationFrame(s) ==
  [s EXCEPT !.engine.animationId = s.engine.nextFrameId,
            !.engine.pendingFrames = s.engine.pendingFrames \cup {s.engine.nextFrameId},
            !.engine.nextFrameId = s.engine.nextFrameId + 1]

\* animate that renders before it steps the physics
GameEngine_animate_RenderFirst(s) ==
  LET s1 == [RequestAnimationFrame(s) EXCEPT !.engine.frames = s.engine.frames + 1]
      s2 == Render(s1)
      s3 == IF s2.engine.physicsInitialized
            THEN PhysicsEngine_step(s2)
            ELSE [s2 EXCEPT !.engine.cubeRotation = s2.engine.cubeRotation + 1]
  IN  [s3 EXCEPT !.ret = RetVoid]

GameEngine_animate(s) ==
  LET s1 == [RequestAnimationFrame(s) EXCEPT !.engine.frames = s.engine.frames + 1]
      s2 == IF s1.engine.physicsInitialized
            THEN PhysicsEngine_step(s1)
            ELSE [s1 EXCEPT !.engine.cubeRotation = s1.engine.cubeRotation + 1]
  IN  [Render(s2) EXCEPT !.ret = RetVoid]

GameEngine_start(s) ==
  IF s.engine.animationId = 0 THEN GameEngine_animate(s) ELSE [s EXCEPT !.ret = RetVoid]

\* stop that forgets cancelAnimationFrame: the handle is dropped, the callback
\* stays pending
GameEngine_stop_NoCancel(s) ==
  IF s.engine.animationId # 0
  THEN [s EXCEPT !.engine.animationId = 0, !.ret = RetVoid]
  ELSE [s EXCEPT !.ret = RetVoid]

GameEngine_stop(s) ==
  IF s.engine.animationId # 0
  THEN [s EXCEPT !.engine.pendingFrames = s.engine.pendingFrames \ {s.engine.animationId},
                 !.engine.animationId = 0,
                 !.ret = RetVoid]
  ELSE [s EXCEPT !.ret = RetVoid]

\* jumpCube without its null guard: this.gameScene.applyImpulse on null throws
GameEngine_jumpCube_NoGuard(s) ==
  IF ~s.engine.gameScene THEN [s EXCEPT !.raised = TRUE]
  ELSE GameScene_applyImpulse(s, "cube1", <<0, 500, 0>>, NoPoint)

GameEngine_jumpCube(s) ==
  IF ~s.engine.gameScene THEN [s EXCEPT !.ret = RetVoid]
  ELSE GameScene_applyImpulse(s, "cube1", <<0, 500, 0>>, NoPoint)

\* setDebug that makes the cube jump on either direction of the toggle
GameEngine_setDebug_AlwaysJump(s, debug) ==
  LET s1 == [s EXCEPT !.engine.debug = debug, !.ret = RetVoid]
  IN  IF s1.engine.gameScene THEN GameEngine_jumpCube(s1) ELSE s1

GameEngine_setDebug(s, debug) ==
  LET s1 == [s EXCEPT !.engine.debug = debug, !.ret = RetVoid]
  IN  IF debug /\ s1.engine.gameScene THEN GameEngine_jumpCube(s1) ELSE s1

GameEngine_createDemoScene(s) ==
  IF ~s.engine.gameScene THEN s
  ELSE LET s1 == GameScene_createGround(s, "ground", <<2000, 50, 2000>>, <<0, -25, 0>>)
           s2 == GameScene_createPhysicsBox(s1, "cube1", <<100, 100, 100>>,
                                            <<0, 500, 0>>, TRUE)
           s3 == GameScene_createPhysicsBox(s2, "cube2", <<100, 100, 100>>,
                                            <<200, 700, 0>>, TRUE)
       IN  GameScene_createPhysicsBox(s3, "platform", <<500, 50, 200>>,
                                      <<-500, 200, 0>>, FALSE)

\* initPhysics() from the point where `await this.physicsEngine.init()` resumes:
\* init() ran to its end in the same turn, and no frame or input comes between
GameEngine_initPhysics(s) ==
  LET s1 == PhysicsEngine_init(s)
      s2 == [s1 EXCEPT !.engine.physicsInitialized = TRUE,
                       !.engine.gameScene = TRUE,
                       !.objects = EmptyMap,
                       !.engine.cubeInScene = FALSE,
                       !.engine.initPhysics = "done"]
  IN  [GameEngine_createDemoScene(s2) EXCEPT !.ret = RetVoid]

GameEngine_cleanup(s) ==
  LET s1 == GameEngine_stop(s)
      s2 == IF s1.engine.gameScene
            THEN [GameScene_cleanup(s1) EXCEPT !.engine.gameScene = FALSE]
            ELSE s1
      s3 == IF s2.engine.physicsInitialized THEN PhysicsEngine_cleanup(s2) ELSE s2
      s4 == IF s3.engine.cubeInScene
            THEN [s3 EXCEPT !.engine.cubeInScene = FALSE, !.engine.cubeDisposed = TRUE]
            ELSE s3
  IN  [s4 EXCEPT !.engine.cleanedUp = TRUE, !.ret = RetVoid]

\* new GameEngine(options): the fields, init() (the cube joins the scene) and
\* initPhysics() up to its await
GameEngine_new(s) ==
  [s EXCEPT !.engine = [NoEngine EXCEPT !.constructed = TRUE,
                                        !.cubeInScene = TRUE,
                                        !.initPhysics = "awaiting"],
            !.initPending = s.initPending + 1,
            !.initCalls = s.initCalls + 1]

\* --------------------------------------------------------------- GameView

\* the debug effect: if (engineRef.current) engineRef.current.setDebug(debugMode)
GameView_debugEffect(s) ==
  IF s.view.engineRef THEN GameEngine_setDebug(s, s.view.debugMode) ELSE s

\* the three effects of the first commit, in order
GameView_mount(s) ==
  LET s1 == GameEngine_start([GameEngine_new(s) EXCEPT !.view.engineRef = TRUE])
      s2 == GameView_debugEffect(s1)
  IN  [s2 EXCEPT !.view.mounted = TRUE, !.ret = RetVoid]

Keys == {"Tab", " ", "w", "a", "s", "d", "q", "x"}

\* the force a key of the switch builds, strength 2.0
KeyForce(key) ==
  CASE key = "w" -> <<0, 0, -200>>
    [] key = "a" -> <<-200, 0, 0>>
    [] key = "s" -> <<0, 0, 200>>
    [] key = "d" -> <<200, 0, 0>>
    [] OTHER     -> Zero3

\* handleKeyDown(event); a Tab's state update is committed and its debug
\* effect run before the next event or frame
GameView_handleKeyDown(s, key) ==
  IF ~s.view.engineRef THEN s
  ELSE IF key = "Tab"
  THEN GameView_debugEffect([s EXCEPT !.view.debugMode = ~s.view.debugMode])
  ELSE IF ~s.engine.gameScene THEN s
  ELSE LET s1 == IF key = " " THEN GameEngine_jumpCube(s) ELSE s
           s2 == IF key = "q"
                 THEN GameScene_applyImpulse(s1, "cube2", <<0, 500, 0>>, NoPoint)
                 ELSE s1
       IN  IF KeyForce(key) # Zero3
           THEN GameScene_applyForce(s2, "cube2", KeyForce(key), NoPoint)
           ELSE s2

\* the cleanup of the first effect, and of the listener effect
GameView_unmount(s) ==
  LET s1 == IF s.view.engineRef
            THEN [GameEngine_cleanup(s) EXCEPT !.view.engineRef = FALSE]
            ELSE s
  IN  [s1 EXCEPT !.view.mounted = FALSE, !.ret = RetVoid]

\* ------------------------------------ SpecApp: GameView and its GameEngine

InitApp ==
  /\ worlds = <<>>
  /\ world = 0
  /\ physicsObjects = <<>>
  /\ rapierModule = FALSE
  /\ initialized = FALSE
  /\ meshes = <<>>
  /\ sceneChildren = {}
  /\ objects = EmptyMap
  /\ lastOp = <<"mount", "">>
  /\ raised = FALSE
  /\ applied = 0
  /\ LET s == GameView_mount(
                [worlds |-> <<>>, world |-> 0, physicsObjects |-> <<>>,
                 rapierModule |-> FALSE, initialized |-> FALSE,
                 initPending |-> 0, initCalls |-> 0,
                 meshes |-> <<>>, sceneChildren |-> {}, objects |-> EmptyMap,
                 lastOp |-> <<"mount", "">>, ret |-> RetVoid, raised |-> FALSE,
                 stepLog |-> <<>>, applied |-> 0, engine |-> NoEngine, view |-> NoView])
     IN  /\ initPending = s.initPending
         /\ initCalls = s.initCalls
         /\ ret = s.ret
         /\ stepLog = s.stepLog
         /\ engine = s.engine
         /\ view = s.view

\* the browser runs a pending frame callback
Frame ==
  /\ engine.frames < MaxFrames
  /\ \E id \in engine.pendingFrames :
       Commit(GameEngine_animate(
                [Begin("frame") EXCEPT !.engine.pendingFrames =
                                         engine.pendingFrames \ {id}]))

\* the physics backend has loaded
InitPhysicsResolve ==
  /\ engine.initPhysics = "awaiting"
  /\ Commit(GameEngine_initPhysics([Begin("initPhysics.resolved") EXCEPT
                                      !.initPending = initPending - 1]))

\* the physics backend cannot be loaded: initPhysics() rejects
InitPhysicsReject ==
  /\ engine.initPhysics = "awaiting"
  /\ Commit([Begin("initPhysics.rejected") EXCEPT !.initPending = initPending - 1,
                                                  !.engine.initPhysics = "failed"])

KeyDown ==
  /\ view.mounted
  /\ view.inputs < MaxInputs
  /\ \E key \in Keys :
       Commit(GameView_handleKeyDown(
                [BeginArg("keydown", key) EXCEPT !.view.inputs = view.inputs + 1], key))

Unmount ==
  /\ view.mounted
  /\ Commit(GameView_unmount(Begin("unmount")))

\* the host calls the engine's public methods itself
EngineStart ==
  /\ view.inputs < MaxInputs
  /\ engine.frames < MaxFrames
  /\ Commit(GameEngine_start([Begin("engine.start") EXCEPT !.view.inputs = view.inputs + 1]))

EngineStop ==
  /\ view.inputs < MaxInputs
  /\ Commit(GameEngine_stop([Begin("engine.stop") EXCEPT !.view.inputs = view.inputs + 1]))

EngineSetDebug ==
  /\ view.inputs < MaxInputs
  /\ \E debug \in BOOLEAN :
       Commit(GameEngine_setDebug(
                [BeginArg("engine.setDebug", IF debug THEN "true" ELSE "false") EXCEPT !.view.inputs = view.inputs + 1],
                debug))

EngineJumpCube ==
  /\ view.inputs < MaxInputs
  /\ Commit(GameEngine_jumpCube(
              [Begin("engine.jumpCube") EXCEPT !.view.inputs = view.inputs + 1]))

EngineCleanup ==
  /\ view.inputs < MaxInputs
  /\ Commit(GameEngine_cleanup(
              [Begin("engine.cleanup") EXCEPT !.view.inputs = view.inputs + 1]))

NextApp ==
  \/ Frame
  \/ InitPhysicsResolve
  \/ InitPhysicsReject
  \/ KeyDown
  \/ Unmount
  \/ EngineStart
  \/ EngineStop
  \/ EngineSetDebug
  \/ EngineJumpCube
  \/ EngineCleanup

SpecApp == InitApp /\ [][NextApp]_vars

\* ------------------------------------------------------------ properties

Op == lastOp[1]

\* the transform of the body a PhysicsObject tracks
BodyOf(obj) == worlds[obj.rigidBody[1]].bodies[obj.rigidBody[2]]

\* the engine state a PhysicsEngine call may change
engineState == <<worlds, world, physicsObjects, rapierModule, initialized>>

\* C1: a step() on an engine that holds a World advances that World exactly
\* once and first, and then runs update() of every registered body exactly
\* once, in the order createBox registered them; every sink then equals its
\* body's advanced transform.
C1_StepOrder ==
  (Op = "step" /\ world # 0) =>
    /\ stepLog = <<<<"world.step", world, 0>>>> \o
                 [i \in 1..Len(physicsObjects) |->
                    <<"update", physicsObjects[i].rigidBody[1],
                                physicsObjects[i].rigidBody[2]>>]
    /\ \A i \in 1..Len(physicsObjects) :
         /\ meshes[physicsObjects[i].mesh].position = BodyOf(physicsObjects[i]).translation
         /\ meshes[physicsObjects[i].mesh].quaternion = BodyOf(physicsObjects[i]).rotation

\* a step has just run over two registered bodies, one of them moving
C1_Witness ==
  /\ Op = "step"
  /\ world # 0
  /\ Len(physicsObjects) = 2
  /\ \E i \in 1..2 : BodyOf(physicsObjects[i]).dynamic
                       /\ physicsObjects[i].rigidBody[1] = world

\* C7: step() before initialization has completed does not raise and changes
\* nothing: no world is advanced, no update() runs, no sink is written.
C7_StepBeforeInit ==
  [][(lastOp'[1] = "step" /\ ~initialized) =>
       /\ ~raised'
       /\ stepLog' = <<>>
       /\ UNCHANGED <<engineState, meshes, sceneChildren, objects>>]_vars

\* step() was called on an engine whose init() is still pending
C7_Witness ==
  /\ Op = "step"
  /\ ~initialized
  /\ initPending > 0
  /\ Len(meshes) > 0

\* C8: createBox and createGround before init() has completed return null, do
\* not raise, and leave the body list and the worlds unchanged.
C8_CreateBeforeInit ==
  [][(lastOp'[1] \in {"createBox", "createGround"} /\ ~initialized) =>
       /\ ~raised'
       /\ ret' = RetNull
       /\ UNCHANGED engineState]_vars

\* createBox was called before init() completed and returned null
C8_Witness ==
  /\ Op = "createBox"
  /\ ~initialized
  /\ ret = RetNull
  /\ Len(meshes) > 0

\* the engine was initialized and has been torn down
TornDown == initialized /\ world = 0

\* C10: after cleanup() the body list is empty and the world reference is
\* null, however often it is called; on a torn-down engine step(), createBox()
\* and createGround() do not raise and change nothing.
C10_Teardown ==
  [][/\ lastOp'[1] = "cleanup" => (physicsObjects' = <<>> /\ world' = 0 /\ ~raised')
     /\ (TornDown /\ lastOp'[1] \in {"step", "createBox", "createGround", "cleanup"}) =>
          /\ ~raised'
          /\ stepLog' = <<>>
          /\ lastOp'[1] \in {"createBox", "createGround"} => ret' = RetNull
          /\ UNCHANGED engineState]_vars

\* createBox was called on an engine torn down while it held bodies' world
C10_Witness ==
  /\ Op = "createBox"
  /\ TornDown
  /\ ret = RetNull
  /\ \E w \in 1..Len(worlds) : Len(worlds[w].bodies) > 0

\* C3 as claimed: createPhysicsBox before the Stepper is initialized is a
\* no-op that leaves the registry, the render graph and the body list
\* unchanged.
C3_NoOpBeforeInit ==
  [][(lastOp'[1] = "scene.createPhysicsBox" /\ ~initialized) =>
       /\ ~raised'
       /\ UNCHANGED <<engineState, objects, sceneChildren>>]_vars

\* C3 as amended: createPhysicsBox before the Stepper is initialized does not
\* raise and creates no body (the body list and the worlds are unchanged), and
\* the request is not queued (the init() that completes later registers no
\* body and its World is empty); but the call is no no-op: its new mesh, at
\* the origin, joins the render graph and is stored under the identifier as
\* an entry without physics.
C3_DroppedNotQueued ==
  [][/\ (lastOp'[1] = "scene.createPhysicsBox" /\ ~initialized) =>
          /\ ~raised'
          /\ UNCHANGED engineState
          /\ Len(meshes') = Len(meshes) + 1
          /\ meshes'[Len(meshes')] = NewMesh
          /\ sceneChildren' = sceneChildren \cup {Len(meshes')}
          /\ DOMAIN objects' = DOMAIN objects \cup {lastOp'[2]}
          /\ objects'[lastOp'[2]] = [mesh |-> Len(meshes'), physics |-> NoPhysics]
          /\ \A k \in DOMAIN objects \ {lastOp'[2]} : objects'[k] = objects[k]
     /\ lastOp'[1] = "init.resolved" =>
          /\ physicsObjects' = physicsObjects
          /\ objects' = objects
          /\ worlds'[world'].bodies = <<>>]_vars

\* createPhysicsBox was called before init() completed and init() has since
\* completed: the entry is there, without physics, and no body is
C3_Witness ==
  /\ Op = "init.resolved"
  /\ \E k \in DOMAIN objects : objects[k].physics = NoPhysics
                                 /\ meshes[objects[k].mesh].position = Zero3
  /\ physicsObjects = <<>>

\* the identifier of the last call names no entry, or an entry without a body
NoBodyFor(id) ==
  \/ id \notin DOMAIN objects
  \/ objects[id].physics = NoPhysics
  \/ objects[id].physics.rigidBody = NullRef

\* C5: applyForce and applyImpulse on an identifier that is unknown or names
\* an entry without a RigidBody do not raise and change neither the worlds
\* (step counts, every body's transform, velocity and forces) nor the
\* registry nor any sink.
C5_ApplyUnknownNoOp ==
  [][(lastOp'[1] \in {"scene.applyForce", "scene.applyImpulse"} /\ NoBodyFor(lastOp'[2])) =>
       /\ ~raised'
       /\ UNCHANGED <<engineState, objects, meshes, sceneChildren, applied>>]_vars

\* an impulse was addressed to an entry without a body while another entry
\* has one
C5_Witness ==
  /\ Op = "scene.applyImpulse"
  /\ lastOp[2] \in DOMAIN objects
  /\ objects[lastOp[2]].physics = NoPhysics
  /\ \E k \in DOMAIN objects : objects[k].physics # NoPhysics

\* C9: after GameScene.cleanup() the registry is empty and nothing was
\* raised, on the first call and on every repeated call; a repeated call
\* changes nothing.
C9_CleanupIdempotent ==
  [][lastOp'[1] = "scene.cleanup" =>
       /\ ~raised'
       /\ objects' = EmptyMap
       /\ lastOp[1] = "scene.cleanup" =>
            UNCHANGED <<engineState, objects, meshes, sceneChildren>>]_vars

\* cleanup() has run over a registry that held a mesh
C9_Witness ==
  /\ Op = "scene.cleanup"
  /\ objects = EmptyMap
  /\ \E m \in 1..Len(meshes) : meshes[m].disposed /\ m \notin sceneChildren

\* a frame has just run: animate, from the browser or from start()
FrameRan == Op \in {"frame", "engine.start"} /\ stepLog # <<>>

\* C2: in every frame that runs with physics initialized the render pass is
\* the frame's last act, after step(); what it reads of every registered
\* sink is the current transform of the sink's body.
C2_RenderAfterStep ==
  (FrameRan /\ engine.physicsInitialized) =>
    /\ stepLog[Len(stepLog)] = <<"render", 0, 0>>
    /\ world # 0 => stepLog[1] = <<"world.step", world, 0>>
    /\ \A i \in 1..Len(physicsObjects) :
         /\ physicsObjects[i].mesh \in DOMAIN engine.rendered
         /\ engine.rendered[physicsObjects[i].mesh] =
              <<BodyOf(physicsObjects[i]).translation, BodyOf(physicsObjects[i]).rotation>>

\* a frame has stepped and rendered the demo scene's three bodies, which a
\* force or impulse has touched
C2_Witness ==
  /\ Op = "frame"
  /\ engine.physicsInitialized
  /\ Len(physicsObjects) = 3
  /\ applied > 0
  /\ worlds[world].steps > 0

\* the last call toggled debug mode: the Tab key, or setDebug itself
Toggles(op) == op = <<"keydown", "Tab">> \/ op[1] = "engine.setDebug"

\* C4 as claimed: toggling debug mode, in either direction, leaves the world
\* and every body's state unchanged.
C4_ToggleNoPhysics ==
  [][Toggles(lastOp') => UNCHANGED <<worlds, applied>>]_vars

\* the toggle of this step turns debug mode on while the game scene exists
TurnsOnInScene ==
  /\ engine.gameScene
  /\ \/ lastOp' = <<"keydown", "Tab">> /\ view.engineRef /\ ~view.debugMode
     \/ lastOp' = <<"engine.setDebug", "true">>

\* C4 as amended: toggling debug mode off, or toggling it on while no game
\* scene exists, has no physics effect; toggling it on while the game scene
\* exists applies the impulse (0, 5, 0) to "cube1", whose velocity rises by
\* 5 / mass, and changes no other body, no transform and no step count.
C4_ToggleJumpsOnlyOn ==
  [][Toggles(lastOp') =>
       /\ ~raised'
       /\ UNCHANGED <<world, physicsObjects, meshes, objects, sceneChildren>>
       /\ IF TurnsOnInScene
          THEN LET r == objects["cube1"].physics.rigidBody
               IN  worlds' = [worlds EXCEPT ![r[1]].bodies[r[2]].linvel =
                                              VAdd(@, <<0, 500, 0>>)]
          ELSE UNCHANGED <<worlds, applied>>]_vars

\* Tab has turned debug mode on with the game scene present: cube1 was pushed
C4_Witness ==
  /\ lastOp = <<"keydown", "Tab">>
  /\ view.debugMode
  /\ engine.debug
  /\ engine.gameScene
  /\ applied > 0

\* the last call is an input: a key event or a direct jumpCube / setDebug
IsInput(op) == op[1] \in {"keydown", "engine.jumpCube", "engine.setDebug"}

\* C6: an input that arrives while the physics backend has not loaded does
\* not raise and changes no body and no world; nothing of it is replayed
\* when the backend loads: the bodies then created are at rest, with no
\* force, and no force or impulse call has reached any body.
C6_DroppedWhileUninitialized ==
  [][/\ (IsInput(lastOp') /\ engine.initPhysics # "done") =>
          /\ ~raised'
          /\ UNCHANGED <<engineState, objects, meshes, sceneChildren, applied>>
     /\ lastOp'[1] = "initPhysics.resolved" =>
          /\ applied' = 0
          /\ \A b \in 1..Len(worlds'[world'].bodies) :
               /\ worlds'[world'].bodies[b].linvel = Zero3
               /\ worlds'[world'].bodies[b].force = Zero3
               /\ worlds'[world'].bodies[b].angvel = 0
               /\ worlds'[world'].bodies[b].torque = 0]_vars

\* debug mode was turned on before the backend loaded, and it has now loaded
C6_Witness ==
  /\ Op = "initPhysics.resolved"
  /\ view.inputs > 0
  /\ view.debugMode
  /\ engine.debug
  /\ Len(physicsObjects) = 3

\* C14: one World per Stepper: at most one World is ever constructed, and
\* every body of the body list belongs to the World the engine holds.
C14_OneWorld ==
  /\ Len(worlds) <= 1
  /\ \A i \in 1..Len(physicsObjects) : physicsObjects[i].rigidBody[1] = world

\* C16: once GameEngine.cleanup() has returned, the World is absent, no game
\* scene exists, no body is registered and no registry holds an entry, in
\* every later state; nothing is created after it.
C16_NothingAfterCleanup ==
  engine.cleanedUp =>
    /\ world = 0
    /\ ~engine.gameScene
    /\ physicsObjects = <<>>
    /\ DOMAIN objects = {}
    /\ sceneChildren = {}

\* the registry entries that hold mesh m, and those that hold the body of obj
EntriesOfMesh(m) == {k \in DOMAIN objects : objects[k].mesh = m}

EntriesOfBody(obj) == {k \in DOMAIN objects : objects[k].physics = obj}

\* C18: every mesh the scene has added to the render graph and every body of
\* the Stepper's body list belongs to exactly one registry entry, and after
\* cleanup() none of the scene's meshes is left in the render graph.
C18_NothingOrphaned ==
  /\ \A m \in sceneChildren : Cardinality(EntriesOfMesh(m)) = 1
  /\ \A i \in 1..Len(physicsObjects) : Cardinality(EntriesOfBody(physicsObjects[i])) = 1
  /\ Op = "scene.cleanup" => sceneChildren = {}

\* C19: isInitialized() is true exactly when the engine holds a World.
C19_InitializedIffWorld ==
  PhysicsEngine_isInitialized(St) <=> world # 0

\* what getObject(id) returns for the registry as it is: the entry's mesh and
\* physics, or undefined
Lookup(id) ==
  IF id \in DOMAIN objects
  THEN [kind |-> "entry",
        value |-> [objects[id].physics EXCEPT !.mesh = objects[id].mesh]]
  ELSE RetUndefined

\* C11: getObject does not raise, returns absent for an identifier the
\* registry does not hold and otherwise the entry stored under it, and leaves
\* the registry, the render graph and the worlds as they were; a creation
\* stores the new mesh under its identifier and leaves the other entries, so
\* the entry returned is the one stored last.
C11_GetObjectPure ==
  [][/\ lastOp'[1] = "scene.getObject" =>
          /\ ~raised'
          /\ ret' = Lookup(lastOp'[2])
          /\ (lastOp'[2] \notin DOMAIN objects => ret'.kind = "undefined")
          /\ UNCHANGED <<engineState, objects, meshes, sceneChildren, applied>>
     /\ lastOp'[1] \in {"scene.createPhysicsBox", "scene.createGround"} =>
          /\ DOMAIN objects' = DOMAIN objects \cup {lastOp'[2]}
          /\ objects'[lastOp'[2]].mesh = Len(meshes')
          /\ Len(meshes') = Len(meshes) + 1
          /\ \A k \in DOMAIN objects \ {lastOp'[2]} : objects'[k] = objects[k]
     /\ lastOp'[1] \notin {"scene.createPhysicsBox", "scene.createGround",
                           "scene.cleanup"} =>
          objects' = objects]_vars

\* getObject returned the second entry stored under an identifier used twice
C11_Witness ==
  /\ Op = "scene.getObject"
  /\ ret.kind = "entry"
  /\ ret.value.mesh = 2
  /\ Len(meshes) = 2
  /\ Cardinality(DOMAIN objects) = 1

\* the body reference of the entry stored under id
RefOf(id) == objects[id].physics.rigidBody

\* both identifiers name Dynamic bodies of the world the engine holds, and
\* that world has no static collider to stop a fall
TwoFreeBoxes ==
  /\ world # 0
  /\ ~NoBodyFor("a") /\ ~NoBodyFor("b")
  /\ RefOf("a")[1] = world /\ RefOf("b")[1] = world
  /\ BodyOf(objects["a"].physics).dynamic
  /\ BodyOf(objects["b"].physics).dynamic
  /\ \A c \in 1..Len(worlds[world].colliders) : worlds[world].colliders[c].parent # 0

\* C12: a force or an impulse addressed to an identifier changes at most the
\* body registered under that identifier, every other body, the step counts,
\* the registry and the sinks being unchanged; an impulse with a positive
\* vertical component raises a Dynamic target's vertical velocity; and one
\* step keeps box "a" faster upward than box "b" when it was so before the
\* step and is pushed no less.
C12_OnlyTheTarget ==
  [][/\ (lastOp'[1] \in {"scene.applyForce", "scene.applyImpulse"}
           /\ ~NoBodyFor(lastOp'[2])) =>
          LET rb == RefOf(lastOp'[2])
          IN  /\ ~raised'
              /\ worlds' = [worlds EXCEPT ![rb[1]].bodies[rb[2]] =
                                             worlds'[rb[1]].bodies[rb[2]]]
              /\ UNCHANGED <<world, physicsObjects, objects, meshes, sceneChildren>>
              /\ (lastOp'[1] = "scene.applyImpulse" /\ Deref(St, rb).dynamic) =>
                   \A v \in Vectors : v[2] > 0 =>
                     worlds'[rb[1]].bodies[rb[2]].linvel[2] > Deref(St, rb).linvel[2]
     /\ (lastOp'[1] = "step" /\ TwoFreeBoxes
           /\ BodyOf(objects["a"].physics).linvel[2] > BodyOf(objects["b"].physics).linvel[2]
           /\ BodyOf(objects["a"].physics).force[2] >= BodyOf(objects["b"].physics).force[2]) =>
          worlds'[world].bodies[RefOf("a")[2]].linvel[2]
            > worlds'[world].bodies[RefOf("b")[2]].linvel[2]]_vars

\* boxes "a" and "b" were created, one impulse went to "a", and after the one
\* step "a" is faster upward than "b" by the impulse
C12_Witness ==
  /\ Op = "step"
  /\ TwoFreeBoxes
  /\ worlds[world].steps = 1
  /\ applied = 1
  /\ BodyOf(objects["a"].physics).force = Zero3
  /\ BodyOf(objects["b"].physics).linvel[2] = GravityY
  /\ BodyOf(objects["a"].physics).linvel[2] = GravityY + 500

\* the body is as createBox left it: at its creation position, at rest, with
\* no force on it
AsCreated(b) ==
  /\ b.translation \in Positions
  /\ b.linvel = Zero3
  /\ b.force = Zero3

\* C13: a body created Fixed is created Fixed at the position given, no
\* operation ever moves it, and every step leaves its sink at that position;
\* the first step after a Dynamic body was created leaves its sink below the
\* creation position, with x and z unchanged.
C13_FixedStaysDynamicFalls ==
  [][/\ \A w \in 1..Len(worlds) : \A i \in 1..Len(worlds[w].bodies) :
          ~worlds[w].bodies[i].dynamic =>
             /\ worlds'[w].bodies[i] = worlds[w].bodies[i]
             /\ worlds[w].bodies[i].translation \in Positions
     /\ (lastOp'[1] = "step" /\ world # 0) =>
          \A i \in 1..Len(physicsObjects) :
            LET obj == physicsObjects[i]
                b   == BodyOf(obj)
                sink == meshes'[obj.mesh].position
            IN  /\ ~b.dynamic => sink = b.translation
                /\ (b.dynamic /\ AsCreated(b)) =>
                     /\ sink[2] < b.translation[2]
                     /\ sink[1] = b.translation[1]
                     /\ sink[3] = b.translation[3]
     /\ lastOp'[1] = "scene.createPhysicsBox" /\ world # 0 =>
          /\ Len(physicsObjects') = Len(physicsObjects) + 1
          /\ LET obj == physicsObjects'[Len(physicsObjects')]
                 b   == worlds'[obj.rigidBody[1]].bodies[obj.rigidBody[2]]
             IN  /\ b.translation \in Positions
                 /\ b.linvel = Zero3
                 /\ obj.mesh = Len(meshes')]_vars

\* after a step the sink of the Fixed box "a" is at its creation position
\* and the sink of the Dynamic box "b" has fallen
C13_Witness ==
  /\ Op = "step"
  /\ world # 0
  /\ ~NoBodyFor("a") /\ ~NoBodyFor("b")
  /\ ~BodyOf(objects["a"].physics).dynamic
  /\ BodyOf(objects["b"].physics).dynamic
  /\ worlds[world].steps = 1
  /\ meshes[objects["a"].mesh].position = <<0, 500, 0>>
  /\ meshes[objects["b"].mesh].position[2] < 500

\* C15: createGround(id, size, position) does not raise, adds to the render
\* graph a mesh placed at the position given, stores under id an entry with
\* that mesh and no RigidBody, and, when the engine holds a World, adds to it
\* one unparented collider of the size's half-extents centred at the origin
\* whatever the position; it creates no body.
C15_GroundMeshPlacedColliderAtOrigin ==
  [][lastOp'[1] = "scene.createGround" =>
       LET mesh == Len(meshes')
       IN  /\ ~raised'
           /\ mesh = Len(meshes) + 1
           /\ meshes'[mesh].position = GroundPosition
           /\ sceneChildren' = sceneChildren \cup {mesh}
           /\ objects'[lastOp'[2]] = [mesh |-> mesh, physics |-> NoPhysics]
           /\ UNCHANGED <<world, physicsObjects>>
           /\ world = 0 => worlds' = worlds
           /\ world # 0 =>
                worlds' = [worlds EXCEPT ![world].colliders =
                             Append(worlds[world].colliders,
                                    [half |-> HalfExtents(GroundSize), parent |-> 0,
                                     translation |-> Zero3])]]_vars

\* a ground was created in a World: its mesh is away from the origin and its
\* collider is at the origin
C15_Witness ==
  /\ Op = "scene.createGround"
  /\ world # 0
  /\ meshes[Len(meshes)].position = GroundPosition
  /\ GroundPosition # Zero3
  /\ worlds[world].colliders # <<>>
  /\ worlds[world].colliders[Len(worlds[world].colliders)].parent = 0
  /\ worlds[world].colliders[Len(worlds[world].colliders)].translation = Zero3
  /\ objects[lastOp[2]].physics = NoPhysics

\* C17: at most one frame callback is pending, and it is the one whose handle
\* the engine holds; no operation advances the worlds by more than one step,
\* and a frame callback renders once; while the engine holds no handle (after
\* stop() or cleanup() returned) nothing steps or renders until start().
C17_OneLoop ==
  [][/\ Cardinality(engine'.pendingFrames) <= 1
     /\ engine'.pendingFrames \subseteq {engine'.animationId}
     /\ TotalSteps(worlds') <= TotalSteps(worlds) + 1
     /\ lastOp'[1] = "frame" => engine'.renders = engine.renders + 1
     /\ lastOp'[1] \in {"engine.stop", "engine.cleanup", "unmount"} =>
          engine'.animationId = 0
     /\ (engine.animationId = 0 /\ lastOp'[1] # "engine.start") =>
          /\ engine'.renders = engine.renders
          /\ TotalSteps(worlds') = TotalSteps(worlds)
          /\ stepLog' = stepLog
          /\ engine'.animationId = 0]_vars

\* stop() has returned on a loop that had stepped the physics: no handle is
\* held and no callback is pending
C17_Witness ==
  /\ Op = "engine.stop"
  /\ engine.animationId = 0
  /\ engine.pendingFrames = {}
  /\ TotalSteps(worlds) >= 1
  /\ engine.renders >= 2
  /\ ~engine.cleanedUp

====
